---- MODULE Spec2Model ----
(***************************************************************************)
(* ts-backed-enum: createBackedEnum / createEnumCase (src/src/index.ts).   *)
(*                                                                         *)
(* A JavaScript string is a tuple of one-character strings, a number is an *)
(* integer, and every primitive carries its runtime kind, so that "1" and  *)
(* 1 are different values.  An object (a case instance, a collection) is a *)
(* record; a case instance carries the identity it got when constructed.   *)
(*                                                                         *)
(* A definition is any record of string keys (EnumLike): nothing reserves  *)
(* a name, so a case may be named after a member of the collection (cases, *)
(* map, from, values).                                                     *)
(***************************************************************************)
EXTENDS Integers, Sequences, FiniteSets, TLC

VARIABLES def, mods, cls, coll, made, last

vars == <<def, mods, cls, coll, made, last>>

(***************************************************************************)
(* Bounds of the model.                                                    *)
(***************************************************************************)
MaxKeys == 3
MaxTraits == 2
MaxLength == 3

(***************************************************************************)
(* Primitive values and their runtime kind.                                *)
(***************************************************************************)
Str(s) == [t |-> "string", s |-> s, n |-> 0]
Num(n) == [t |-> "number", s |-> <<>>, n |-> n]
Bool(b) == [t |-> "boolean", s |-> <<>>, n |-> IF b THEN 1 ELSE 0]
Undefined == [t |-> "undefined", s |-> <<>>, n |-> 0]
Null == [t |-> "null", s |-> <<>>, n |-> 0]
PlainObject == [t |-> "object", s |-> <<>>, n |-> 0]
ArrowFunction == [t |-> "function", s |-> <<>>, n |-> 0]

IsCaseObject(x) == "id" \in DOMAIN x

\* typeof x
TypeOf(x) ==
    IF IsCaseObject(x) THEN "object"
    ELSE IF x.t = "null" THEN "object"
    ELSE x.t

(***************************************************************************)
(* Number(key) for a string key: only whether the result is NaN matters.   *)
(* StringToNumber trims white space, reads the empty string as 0, and      *)
(* otherwise accepts a signed decimal literal (with Infinity, a fraction   *)
(* and an exponent) or an unsigned 0x / 0o / 0b literal.                   *)
(*                                                                         *)
(* StrWhiteSpaceChar is TAB, VT, FF, SP, NBSP, ZWNBSP, the Zs category,    *)
(* LF, CR, LS and PS.  WhiteSpace holds the ASCII ones (SP, TAB, LF, CR,   *)
(* FF and VT, the last written as the character itself); keys are strings  *)
(* over ASCII.                                                             *)
(***************************************************************************)
WhiteSpace == {" ", "\t", "\n", "\r", "\f", ""}
DecimalDigit == {"0", "1", "2", "3", "4", "5", "6", "7", "8", "9"}
HexDigit == DecimalDigit \cup {"a", "b", "c", "d", "e", "f", "A", "B", "C", "D", "E", "F"}
OctalDigit == {"0", "1", "2", "3", "4", "5", "6", "7"}
BinaryDigit == {"0", "1"}
InfinityChars == <<"I", "n", "f", "i", "n", "i", "t", "y">>

RECURSIVE TrimStart(_)
TrimStart(s) ==
    IF Len(s) > 0 /\ s[1] \in WhiteSpace THEN TrimStart(Tail(s)) ELSE s

RECURSIVE TrimEnd(_)
TrimEnd(s) ==
    IF Len(s) > 0 /\ s[Len(s)] \in WhiteSpace
    THEN TrimEnd(SubSeq(s, 1, Len(s) - 1))
    ELSE s

Trim(s) == TrimEnd(TrimStart(s))

AllIn(s, chars) == \A i \in 1..Len(s) : s[i] \in chars

IsDecimalDigits(s) == Len(s) > 0 /\ AllIn(s, DecimalDigit)

StripSign(s) ==
    IF Len(s) > 0 /\ s[1] \in {"+", "-"} THEN Tail(s) ELSE s

\* DecimalDigits . DecimalDigits(opt) | . DecimalDigits | DecimalDigits
IsMantissa(s) ==
    LET dots == {i \in 1..Len(s) : s[i] = "."}
    IN  /\ Cardinality(dots) <= 1
        /\ \A i \in 1..Len(s) : s[i] \in DecimalDigit \cup {"."}
        /\ \E i \in 1..Len(s) : s[i] \in DecimalDigit

IsUnsignedDecimal(s) ==
    LET es == {i \in 1..Len(s) : s[i] \in {"e", "E"}}
    IN  \/ s = InfinityChars
        \/ es = {} /\ IsMantissa(s)
        \/ /\ es # {}
           /\ LET i == CHOOSE j \in es : \A k \in es : j <= k
              IN  /\ IsMantissa(SubSeq(s, 1, i - 1))
                  /\ IsDecimalDigits(StripSign(SubSeq(s, i + 1, Len(s))))

IsNonDecimalInteger(s) ==
    /\ Len(s) >= 3
    /\ s[1] = "0"
    /\ LET rest == SubSeq(s, 3, Len(s))
       IN  \/ s[2] \in {"x", "X"} /\ AllIn(rest, HexDigit)
           \/ s[2] \in {"o", "O"} /\ AllIn(rest, OctalDigit)
           \/ s[2] \in {"b", "B"} /\ AllIn(rest, BinaryDigit)

\* isNaN(Number(key))
IsNaNNumber(key) ==
    LET s == Trim(key)
    IN  ~ \/ s = <<>>
          \/ IsUnsignedDecimal(StripSign(s))
          \/ IsNonDecimalInteger(s)

(***************************************************************************)
(* String(value) of a primitive: a string is itself, a number its decimal  *)
(* digits.                                                                 *)
(***************************************************************************)
DigitChar(d) == <<"0", "1", "2", "3", "4", "5", "6", "7", "8", "9">>[d + 1]

RECURSIVE NaturalToString(_)
NaturalToString(n) ==
    IF n < 10 THEN <<DigitChar(n)>>
    ELSE Append(NaturalToString(n \div 10), DigitChar(n % 10))

NumberToString(n) ==
    IF n < 0 THEN <<"-">> \o NaturalToString(0 - n) ELSE NaturalToString(n)

\* String(v) for a primitive, a plain object and the function () => {}
ToStringValue(v) ==
    IF v.t = "string" THEN v.s
    ELSE IF v.t = "number" THEN NumberToString(v.n)
    ELSE IF v.t = "undefined" THEN <<"u", "n", "d", "e", "f", "i", "n", "e", "d">>
    ELSE IF v.t = "null" THEN <<"n", "u", "l", "l">>
    ELSE IF v.t = "boolean"
    THEN IF v.n = 1 THEN <<"t", "r", "u", "e">> ELSE <<"f", "a", "l", "s", "e">>
    ELSE IF v.t = "object"
    THEN <<"[", "o", "b", "j", "e", "c", "t", " ", "O", "b", "j", "e", "c", "t", "]">>
    ELSE <<"(", ")", " ", "=", ">", " ", "{", "}">>

(***************************************************************************)
(* Object.keys(baseEnum): a definition is the sequence of its own entries  *)
(* in creation order; the keys that are array indices come first, in       *)
(* ascending numeric order, then the other keys in creation order.         *)
(***************************************************************************)
DigitValue(c) == CHOOSE d \in 0..9 : DigitChar(d) = c

\* a < b for two digit strings without leading zeros, compared as numbers:
\* by length, then digit by digit (an index reaches 2^32 - 2, beyond the
\* integers of the checker)
RECURSIVE DigitsLess(_, _)
DigitsLess(a, b) ==
    IF Len(a) # Len(b) THEN Len(a) < Len(b)
    ELSE IF Len(a) = 0 THEN FALSE
    ELSE IF a[1] # b[1] THEN DigitValue(a[1]) < DigitValue(b[1])
    ELSE DigitsLess(Tail(a), Tail(b))

\* 2^32 - 2, the largest array index
MaxArrayIndex == <<"4", "2", "9", "4", "9", "6", "7", "2", "9", "4">>

\* canonical decimal form of an integer below 2^32 - 1
IsArrayIndex(key) ==
    /\ IsDecimalDigits(key)
    /\ (Len(key) = 1 \/ key[1] # "0")
    /\ ~DigitsLess(MaxArrayIndex, key)

RECURSIVE SelectKeys(_, _)
SelectKeys(entries, wantIndex) ==
    IF Len(entries) = 0 THEN <<>>
    ELSE IF IsArrayIndex(entries[1].key) = wantIndex
         THEN <<entries[1].key>> \o SelectKeys(Tail(entries), wantIndex)
         ELSE SelectKeys(Tail(entries), wantIndex)

RECURSIVE InsertAscending(_, _)
InsertAscending(sorted, key) ==
    IF Len(sorted) = 0 THEN <<key>>
    ELSE IF DigitsLess(key, sorted[1])
         THEN <<key>> \o sorted
         ELSE <<sorted[1]>> \o InsertAscending(Tail(sorted), key)

RECURSIVE SortAscending(_)
SortAscending(ks) ==
    IF Len(ks) = 0 THEN <<>>
    ELSE InsertAscending(SortAscending(Tail(ks)), ks[1])

ObjectKeys(entries) ==
    SortAscending(SelectKeys(entries, TRUE)) \o SelectKeys(entries, FALSE)

\* baseEnum[key]
GetEntry(entries, key) ==
    LET i == CHOOSE j \in 1..Len(entries) : entries[j].key = key
    IN  entries[i].value

RECURSIVE FilterNaN(_)
FilterNaN(ks) ==
    IF Len(ks) = 0 THEN <<>>
    ELSE IF IsNaNNumber(ks[1])
         THEN <<ks[1]>> \o FilterNaN(Tail(ks))
         ELSE FilterNaN(Tail(ks))

\* const keys = Object.keys(baseEnum).filter((key) => isNaN(Number(key)))
FilteredKeys(entries) == FilterNaN(ObjectKeys(entries))

(***************************************************************************)
(* Case classes.  A class is its name, its method table (method name ->    *)
(* the class or trait whose definition is used, "none" when the method     *)
(* does not exist) and, for a caller's class whose constructor rejects     *)
(* some names, the names it throws on.                                     *)
(***************************************************************************)
MethodNames == {"toString", "slug", "is", "isNot", "f"}

\* the methods a trait class defines itself
TraitMethods(trait) ==
    IF trait = "Comparable" THEN {"is", "isNot"}
    ELSE IF trait = "Stringable" THEN {"toString", "slug"}
    ELSE IF trait \in {"M1", "M2"} THEN {"f"}
    ELSE {}

\* class EnumCase { constructor(name, value); toString() }
EnumCase ==
    [cname |-> "EnumCase",
     table |-> [m \in MethodNames |-> IF m = "toString" THEN "EnumCase" ELSE "none"],
     throwsOn |-> {}]

RECURSIVE ApplyTraits(_, _)
ApplyTraits(table, traits) ==
    IF Len(traits) = 0 THEN table
    ELSE ApplyTraits([m \in MethodNames |->
                        IF m \in TraitMethods(traits[1]) THEN traits[1] ELSE table[m]],
                     Tail(traits))

\* compose(Base, M1..Mn): Base's constructor, Base's methods overridden by
\* each module's own methods, left to right
withTraits(Base, traits) ==
    [cname |-> "WithTraits",
     table |-> ApplyTraits(Base.table, traits),
     throwsOn |-> Base.throwsOn]

Reverse(seq) == [i \in 1..Len(seq) |-> seq[Len(seq) + 1 - i]]

\* the traits handed over in the opposite order
createEnumCaseReversed(traits) == withTraits(EnumCase, Reverse(traits))

\* return withTraits(EnumCase, ...traits)
createEnumCase(traits) == withTraits(EnumCase, traits)

\* a caller's class extending EnumCase whose constructor throws for some names
ThrowingCase(names) ==
    [cname |-> "ThrowingCase",
     table |-> EnumCase.table,
     throwsOn |-> names]

\* new CaseClass(name, value) when the constructor returns
NewCase(CaseClass, name, value, id) ==
    [id |-> id, cls |-> CaseClass, name |-> name, value |-> value]

\* value instanceof CaseClass: every class of the model extends EnumCase
InstanceOf(x, CaseClass) ==
    IsCaseObject(x) /\ (x.cls = CaseClass \/ CaseClass = EnumCase)

(***************************************************************************)
(* The BackedEnum object: the Array made by the `cases` initializer, the   *)
(* Map made by the `map` initializer (its entries in insertion order), and *)
(* the object's own properties in creation order.  A property refers to    *)
(* the Array, to the Map or to a case instance.                            *)
(***************************************************************************)
NoCase == [id |-> 0, cls |-> EnumCase, name |-> <<>>, value |-> Undefined]

CasesKey == <<"c", "a", "s", "e", "s">>
MapKey == <<"m", "a", "p">>
FromKey == <<"f", "r", "o", "m">>
ValuesKey == <<"v", "a", "l", "u", "e", "s">>

FieldProperty(key, ref) ==
    [key |-> key, ref |-> ref, inst |-> NoCase,
     writable |-> TRUE, enumerable |-> TRUE, configurable |-> TRUE]

\* class BackedEnum { cases = []; map = new Map(); ... } before the constructor body
NewBackedEnum ==
    [arr |-> <<>>,
     idx |-> <<>>,
     own |-> <<FieldProperty(CasesKey, "arr"), FieldProperty(MapKey, "idx")>>]

HasOwn(obj, key) == \E i \in 1..Len(obj.own) : obj.own[i].key = key

OwnIndex(obj, key) == CHOOSE i \in 1..Len(obj.own) : obj.own[i].key = key

GetOwn(obj, key) == obj.own[OwnIndex(obj, key)]

\* Map.prototype.set: an existing key keeps its position and gets the new value
MapSet(entries, key, value) ==
    IF \E i \in 1..Len(entries) : entries[i].key = key
    THEN [i \in 1..Len(entries) |->
            IF entries[i].key = key THEN [key |-> key, value |-> value] ELSE entries[i]]
    ELSE Append(entries, [key |-> key, value |-> value])

MapHas(entries, key) == \E i \in 1..Len(entries) : entries[i].key = key

\* Map.prototype.get
MapGet(entries, key) ==
    IF MapHas(entries, key)
    THEN entries[CHOOSE i \in 1..Len(entries) : entries[i].key = key].value
    ELSE Undefined

\* Object.defineProperty(this, key, { value: instance, enumerable: true })
\* a new property is neither writable nor configurable; a configurable one
\* keeps the attributes the descriptor does not name
DefineProperty(obj, key, instance) ==
    IF ~HasOwn(obj, key)
    THEN [thrown |-> FALSE,
          obj |-> [obj EXCEPT !.own = Append(@,
                      [key |-> key, ref |-> "inst", inst |-> instance,
                       writable |-> FALSE, enumerable |-> TRUE,
                       configurable |-> FALSE])]]
    ELSE IF GetOwn(obj, key).configurable
    THEN [thrown |-> FALSE,
          obj |-> [obj EXCEPT !.own[OwnIndex(obj, key)] =
                      [@ EXCEPT !.ref = "inst", !.inst = instance,
                                !.enumerable = TRUE]]]
    ELSE [thrown |-> GetOwn(obj, key).ref # "inst" \/ GetOwn(obj, key).inst # instance,
          obj |-> obj]

(***************************************************************************)
(* Outcome of a call: it returns a value (or a list) or throws.            *)
(***************************************************************************)
Return(v) == [thrown |-> FALSE, err |-> "none", value |-> v, list |-> <<>>]
ReturnList(l) == [thrown |-> FALSE, err |-> "none", value |-> Undefined, list |-> l]
Throw(e) == [thrown |-> TRUE, err |-> e, value |-> Undefined, list |-> <<>>]

(***************************************************************************)
(* createBackedEnum(baseEnum, CaseClass)                                   *)
(***************************************************************************)
NoCollection == [arr |-> <<>>, idx |-> <<>>, own |-> <<>>]

\* one iteration of `for (const key of keys)` in the BackedEnum constructor;
\* st.made is the sequence of the instances constructed so far
ConstructorStep(st, baseEnum, CaseClass, key) ==
    LET value == GetEntry(baseEnum, key)
        instance == NewCase(CaseClass, key, value, Len(st.made) + 1)
        st1 == [st EXCEPT !.made = Append(@, instance)]
        pushed == [st.obj EXCEPT !.arr = Append(@, instance)]
        stored == [pushed EXCEPT !.idx = MapSet(@, value, instance)]
        defined == DefineProperty(stored, key, instance)
    IN  IF key \in CaseClass.throwsOn
        THEN [st EXCEPT !.thrown = TRUE, !.err = "CaseClassError"]
        ELSE IF GetOwn(st.obj, CasesKey).ref # "arr"
        THEN [st1 EXCEPT !.thrown = TRUE, !.err = "TypeError"]
        ELSE IF GetOwn(st.obj, MapKey).ref # "idx"
        THEN [st1 EXCEPT !.obj = pushed, !.thrown = TRUE, !.err = "TypeError"]
        ELSE IF defined.thrown
        THEN [st1 EXCEPT !.obj = stored, !.thrown = TRUE, !.err = "TypeError"]
        ELSE [st1 EXCEPT !.obj = defined.obj]

RECURSIVE Constructor(_, _, _, _)
Constructor(st, baseEnum, CaseClass, keys) ==
    IF st.thrown \/ Len(keys) = 0 THEN st
    ELSE Constructor(ConstructorStep(st, baseEnum, CaseClass, keys[1]),
                     baseEnum, CaseClass, Tail(keys))

\* new BackedEnum()
BackedEnum(baseEnum, CaseClass, keys) ==
    Constructor([obj |-> NewBackedEnum, made |-> <<>>, thrown |-> FALSE, err |-> "none"],
                baseEnum, CaseClass, keys)

\* the result of createBackedEnum: the collection, or the exception that left
\* the constructor
createBackedEnum(baseEnum, CaseClass) ==
    LET built == BackedEnum(baseEnum, CaseClass, FilteredKeys(baseEnum))
    IN  [thrown |-> built.thrown,
         err |-> built.err,
         value |-> IF built.thrown THEN NoCollection ELSE built.obj,
         made |-> built.made]

(***************************************************************************)
(* The members of a collection.                                            *)
(***************************************************************************)
\* a function found on the prototype chain
Method(name) == [t |-> "function", s |-> name, n |-> 0]

ProtoKey == <<"_", "_", "p", "r", "o", "t", "o", "_", "_">>

\* the methods of BackedEnum.prototype (constructor, from, values) and of
\* Object.prototype
PrototypeMethods ==
    {<<"c", "o", "n", "s", "t", "r", "u", "c", "t", "o", "r">>,
     FromKey,
     ValuesKey,
     <<"t", "o", "S", "t", "r", "i", "n", "g">>,
     <<"t", "o", "L", "o", "c", "a", "l", "e", "S", "t", "r", "i", "n", "g">>,
     <<"v", "a", "l", "u", "e", "O", "f">>,
     <<"h", "a", "s", "O", "w", "n", "P", "r", "o", "p", "e", "r", "t", "y">>,
     <<"i", "s", "P", "r", "o", "t", "o", "t", "y", "p", "e", "O", "f">>,
     <<"p", "r", "o", "p", "e", "r", "t", "y", "I", "s", "E", "n", "u", "m", "e", "r", "a", "b", "l", "e">>,
     <<"_", "_", "d", "e", "f", "i", "n", "e", "G", "e", "t", "t", "e", "r", "_", "_">>,
     <<"_", "_", "d", "e", "f", "i", "n", "e", "S", "e", "t", "t", "e", "r", "_", "_">>,
     <<"_", "_", "l", "o", "o", "k", "u", "p", "G", "e", "t", "t", "e", "r", "_", "_">>,
     <<"_", "_", "l", "o", "o", "k", "u", "p", "S", "e", "t", "t", "e", "r", "_", "_">>}

\* collection[key]: the own property, else what the prototype chain has
\* under the key, else undefined
GetProperty(obj, key) ==
    IF HasOwn(obj, key)
    THEN IF GetOwn(obj, key).ref = "inst" THEN GetOwn(obj, key).inst
         ELSE PlainObject
    ELSE IF key \in PrototypeMethods THEN Method(key)
    ELSE IF key = ProtoKey THEN PlainObject
    ELSE Undefined

\* collection.cases when it is the Array
CasesIsArray(obj) == HasOwn(obj, CasesKey) /\ GetOwn(obj, CasesKey).ref = "arr"

\* BackedEnum.prototype.from; the instance branch calls this.from, which an
\* own property named from hides
RECURSIVE from(_, _, _)
from(obj, CaseClass, value) ==
    IF InstanceOf(value, CaseClass)
    THEN IF HasOwn(obj, FromKey)
         THEN Throw("TypeError")
         ELSE from(obj, CaseClass, value.value)
    ELSE IF TypeOf(value) # "string" /\ TypeOf(value) # "number"
    THEN Return(Undefined)
    ELSE IF GetOwn(obj, MapKey).ref # "idx"
    THEN Throw("TypeError")
    ELSE Return(MapGet(obj.idx, value))

\* collection.from(value): an own property named from hides the method
CallFrom(obj, CaseClass, value) ==
    IF HasOwn(obj, FromKey) THEN Throw("TypeError") ELSE from(obj, CaseClass, value)

\* BackedEnum.prototype.from of dist/index.js: the Map lookup alone, with no
\* instanceof branch and no typeof guard
distFrom(obj, value) ==
    IF GetOwn(obj, MapKey).ref # "idx"
    THEN Throw("TypeError")
    ELSE Return(MapGet(obj.idx, value))

\* collection.from(value) on the collection of dist/index.js, whose
\* createBackedEnum builds the collection statement for statement as
\* src/index.ts does
CallDistFrom(obj, value) ==
    IF HasOwn(obj, FromKey) THEN Throw("TypeError") ELSE distFrom(obj, value)

\* _case.value for an element of the array
ElementValue(x) ==
    IF IsCaseObject(x) THEN x.value ELSE Undefined

\* BackedEnum.prototype.values
values(obj) ==
    IF ~CasesIsArray(obj) THEN Throw("TypeError")
    ELSE IF \E i \in 1..Len(obj.arr) :
              ~IsCaseObject(obj.arr[i]) /\ obj.arr[i].t \in {"null", "undefined"}
    THEN Throw("TypeError")
    ELSE ReturnList([i \in 1..Len(obj.arr) |-> ElementValue(obj.arr[i])])

\* collection.values()
CallValues(obj) ==
    IF HasOwn(obj, ValuesKey) THEN Throw("TypeError") ELSE values(obj)

(***************************************************************************)
(* Methods of a case instance.  The traits are the ones of                 *)
(* tests/main.test.ts (Comparable, Stringable) and two modules M1, M2 that *)
(* both define f.                                                          *)
(***************************************************************************)
UpperCase == <<"A", "B", "C", "D", "E", "F", "G", "H", "I", "J", "K", "L", "M",
               "N", "O", "P", "Q", "R", "S", "T", "U", "V", "W", "X", "Y", "Z">>
LowerCase == <<"a", "b", "c", "d", "e", "f", "g", "h", "i", "j", "k", "l", "m",
               "n", "o", "p", "q", "r", "s", "t", "u", "v", "w", "x", "y", "z">>

\* names are strings over ASCII, where toLowerCase changes A..Z only
ToLowerChar(c) ==
    IF \E i \in 1..26 : UpperCase[i] = c
    THEN LowerCase[CHOOSE i \in 1..26 : UpperCase[i] = c]
    ELSE c

\* String.prototype.toLowerCase
ToLowerCase(s) == [i \in 1..Len(s) |-> ToLowerChar(s[i])]

\* String.prototype.replace(pattern, by) for one-character strings: the first
\* occurrence only
ReplaceFirst(s, pattern, by) ==
    IF \E i \in 1..Len(s) : s[i] = pattern
    THEN LET first == CHOOSE i \in 1..Len(s) :
                        s[i] = pattern /\ \A j \in 1..(i - 1) : s[j] # pattern
         IN  [i \in 1..Len(s) |-> IF i = first THEN by ELSE s[i]]
    ELSE s

\* instance[method](other), dispatched through the class's method table
RECURSIVE Invoke(_, _, _)
Invoke(this, method, other) ==
    LET owner == this.cls.table[method]
    IN  IF owner = "none" THEN Throw("TypeError")
        ELSE IF owner = "EnumCase" /\ method = "toString"
        THEN IF IsCaseObject(this.value)
             THEN Invoke(this.value, "toString", Undefined)
             ELSE Return(Str(ToStringValue(this.value)))
        ELSE IF owner = "Stringable" /\ method = "toString"
        THEN Return(Str(this.name))
        ELSE IF owner = "Stringable" /\ method = "slug"
        THEN Return(Str(ReplaceFirst(ToLowerCase(this.name), "_", "-")))
        ELSE IF owner = "Comparable" /\ method = "is"
        THEN IF ~IsCaseObject(other) /\ other.t \in {"null", "undefined"}
             THEN Throw("TypeError")
             ELSE Return(Bool(this.value = ElementValue(other)))
        ELSE IF owner = "Comparable" /\ method = "isNot"
        THEN LET r == Invoke(this, "is", other)
             IN  IF r.thrown THEN r ELSE Return(Bool(r.value.n = 0))
        ELSE IF owner = "M1" /\ method = "f"
        THEN Return(Str(<<"M", "1">>))
        ELSE IF owner = "M2" /\ method = "f"
        THEN Return(Str(<<"M", "2">>))
        ELSE Throw("TypeError")

(***************************************************************************)
(* Inputs.                                                                 *)
(***************************************************************************)
KeyUniverse == {<<"A">>, <<"B">>, CasesKey, MapKey, FromKey, ValuesKey, <<"1">>, <<>>}
ValueUniverse == {Num(1), Str(<<"1">>), Str(<<"a">>)}

Entries == [key : KeyUniverse, value : ValueUniverse]

DistinctKeys(entries) ==
    \A i, j \in 1..Len(entries) : entries[i].key = entries[j].key => i = j

\* every definition of at most MaxKeys entries
Definitions ==
    UNION {{d \in [1..n -> Entries] : DistinctKeys(d)} : n \in 0..MaxKeys}

TraitNames == {"Comparable", "Stringable", "M1", "M2"}

TraitLists == UNION {[1..n -> TraitNames] : n \in 0..MaxTraits}

\* const RoleCase = createEnumCase(Comparable, Stringable)
RoleCase == createEnumCase(<<"Comparable", "Stringable">>)

\* the case classes a caller passes, each with the modules it was composed from
CaseClasses ==
    {[mods |-> <<>>, class |-> EnumCase],
     [mods |-> <<"Comparable", "Stringable">>, class |-> RoleCase],
     [mods |-> <<>>, class |-> ThrowingCase({<<"B">>})]}

ComposedClasses ==
    {[mods |-> <<>>, class |-> EnumCase]} \cup
    {[mods |-> traits, class |-> createEnumCase(traits)] : traits \in TraitLists}

\* the definitions used where the case class or the caller's operations vary
SampleDefinitions ==
    {<<[key |-> <<"A", "_", "B">>, value |-> Num(12)],
       [key |-> <<"B">>, value |-> Str(<<"b">>)]>>,
     <<[key |-> <<"1">>, value |-> Str(<<"A">>)],
       [key |-> <<"A">>, value |-> Num(1)],
       [key |-> MapKey, value |-> Num(2)]>>,
     <<[key |-> <<"A">>, value |-> Num(1)],
       [key |-> <<"B">>, value |-> Num(1)]>>}

\* case instances made by the caller, outside any collection
ForeignCases ==
    {NewCase(EnumCase, <<"X">>, v, 0) : v \in {Num(1), Str(<<"z">>)}}

PrimitiveCandidates ==
    ValueUniverse \cup
    {Num(2), Str(<<"A">>), Null, Undefined, PlainObject, ArrowFunction, Bool(TRUE)}

\* the case instances reachable from a collection
OwnCases(obj) ==
    {obj.arr[i] : i \in {j \in 1..Len(obj.arr) : IsCaseObject(obj.arr[j])}} \cup
    {obj.own[i].inst : i \in {j \in 1..Len(obj.own) : obj.own[j].ref = "inst"}}

Candidates(obj) == PrimitiveCandidates \cup ForeignCases \cup OwnCases(obj)

(***************************************************************************)
(* The caller: it calls createBackedEnum and keeps what the call returned, *)
(* then uses the collection.  `last` records the latest call.              *)
(***************************************************************************)
Call(op, key, arg, r) ==
    [op |-> op, key |-> key, arg |-> arg,
     thrown |-> r.thrown, err |-> r.err, value |-> r.value, list |-> r.list]

Init ==
    /\ def = <<>>
    /\ mods = <<>>
    /\ cls = EnumCase
    /\ coll = NoCollection
    /\ made = <<>>
    /\ last = Call("none", <<>>, Undefined, Return(Undefined))

\* collection = createBackedEnum(baseEnum, CaseClass), by a caller that holds
\* no collection; CaseClass is EnumCase, a caller's class or the class
\* createEnumCase(...mods) returned
CreateBackedEnum(definitions, classes) ==
    /\ last.op = "none"
    /\ \E baseEnum \in definitions, c \in classes :
        LET r == createBackedEnum(baseEnum, c.class)
        IN  /\ def' = baseEnum
            /\ mods' = c.mods
            /\ cls' = c.class
            /\ coll' = r.value
            /\ made' = r.made
            /\ last' = Call("createBackedEnum", <<>>, Undefined,
                            IF r.thrown THEN Throw(r.err) ELSE Return(Undefined))

\* collection.from(value)
From ==
    /\ coll # NoCollection
    /\ \E value \in Candidates(coll) :
          last' = Call("from", <<>>, value, CallFrom(coll, cls, value))
    /\ UNCHANGED <<def, mods, cls, coll, made>>

\* collection.from(value), the collection being the one dist/index.js built
DistFrom ==
    /\ coll # NoCollection
    /\ \E value \in Candidates(coll) :
          last' = Call("distFrom", <<>>, value, CallDistFrom(coll, value))
    /\ UNCHANGED <<def, mods, cls, coll, made>>

\* collection.values()
Values ==
    /\ coll # NoCollection
    /\ last' = Call("values", <<>>, Undefined, CallValues(coll))
    /\ UNCHANGED <<def, mods, cls, coll, made>>

\* collection.cases[i][method](other), other a case of the collection or null
InvokeCase ==
    /\ coll # NoCollection
    /\ CasesIsArray(coll)
    /\ \E i \in 1..Len(coll.arr), method \in MethodNames :
          /\ IsCaseObject(coll.arr[i])
          /\ \E other \in OwnCases(coll) \cup {Null} :
                last' = Call("invoke", <<method>>, coll.arr[i],
                             Invoke(coll.arr[i], method, other))
    /\ UNCHANGED <<def, mods, cls, coll, made>>

\* the caller lets go of what the last createBackedEnum call left
Discard ==
    /\ last.op # "none"
    /\ def' = <<>>
    /\ mods' = <<>>
    /\ cls' = EnumCase
    /\ coll' = NoCollection
    /\ made' = <<>>
    /\ last' = Call("none", <<>>, Undefined, Return(Undefined))

Next ==
    \/ CreateBackedEnum(Definitions, CaseClasses)
    \/ From
    \/ Values
    \/ Discard

Spec == Init /\ [][Next]_vars

\* the caller imports the built artifact next to the source
NextDist ==
    \/ CreateBackedEnum(Definitions, CaseClasses)
    \/ From
    \/ DistFrom
    \/ Discard

SpecDist == Init /\ [][NextDist]_vars

NextTraits ==
    \/ CreateBackedEnum(SampleDefinitions, ComposedClasses)
    \/ InvokeCase
    \/ Discard

SpecTraits == Init /\ [][NextTraits]_vars

(***************************************************************************)
(* What a caller can do to the returned object at run time.  `readonly` is *)
(* a compile-time annotation: the Array stays an ordinary Array, and a     *)
(* property obeys the attributes Object.defineProperty gave it.            *)
(***************************************************************************)
AccessorKeys(obj) ==
    {obj.own[i].key : i \in {j \in 1..Len(obj.own) : obj.own[j].ref = "inst"}}

\* collection.cases.push(x)
PushCases ==
    /\ coll # NoCollection
    /\ CasesIsArray(coll)
    /\ Len(coll.arr) < MaxLength
    /\ \E x \in ForeignCases :
          /\ coll' = [coll EXCEPT !.arr = Append(@, x)]
          /\ last' = Call("push", <<>>, x, Return(Num(Len(coll.arr) + 1)))
    /\ UNCHANGED <<def, mods, cls, made>>

\* collection.cases.pop()
PopCases ==
    /\ coll # NoCollection
    /\ CasesIsArray(coll)
    /\ Len(coll.arr) > 0
    /\ coll' = [coll EXCEPT !.arr = SubSeq(@, 1, Len(@) - 1)]
    /\ last' = Call("pop", <<>>, Undefined, Return(coll.arr[Len(coll.arr)]))
    /\ UNCHANGED <<def, mods, cls, made>>

\* collection.cases.length = n
TruncateCases ==
    /\ coll # NoCollection
    /\ CasesIsArray(coll)
    /\ \E n \in 0..(Len(coll.arr) - 1) :
          /\ coll' = [coll EXCEPT !.arr = SubSeq(@, 1, n)]
          /\ last' = Call("truncate", <<>>, Num(n), Return(Num(n)))
    /\ UNCHANGED <<def, mods, cls, made>>

\* collection[key] = x: a property that is not writable keeps its value; the
\* assignment throws in strict code and is ignored otherwise
AssignAccessor ==
    /\ coll # NoCollection
    /\ \E key \in AccessorKeys(coll), x \in ForeignCases, strict \in BOOLEAN :
          IF GetOwn(coll, key).writable
          THEN /\ coll' = [coll EXCEPT !.own[OwnIndex(coll, key)].inst = x]
               /\ last' = Call("assign", key, x, Return(x))
          ELSE /\ coll' = coll
               /\ last' = Call("assign", key, x,
                               IF strict THEN Throw("TypeError") ELSE Return(x))
    /\ UNCHANGED <<def, mods, cls, made>>

\* Object.defineProperty(collection, key, { value: x, enumerable: true })
RedefineAccessor ==
    /\ coll # NoCollection
    /\ \E key \in AccessorKeys(coll), x \in ForeignCases :
          LET r == DefineProperty(coll, key, x)
          IN  /\ coll' = r.obj
              /\ last' = Call("redefine", key, x,
                              IF r.thrown THEN Throw("TypeError") ELSE Return(Undefined))
    /\ UNCHANGED <<def, mods, cls, made>>

NextCaller ==
    \/ CreateBackedEnum(SampleDefinitions, {[mods |-> <<>>, class |-> EnumCase]})
    \/ From
    \/ Values
    \/ PushCases
    \/ PopCases
    \/ TruncateCases
    \/ AssignAccessor
    \/ RedefineAccessor
    \/ Discard

SpecCaller == Init /\ [][NextCaller]_vars

(***************************************************************************)
(* Vocabulary of the properties.                                           *)
(***************************************************************************)
Built == coll # NoCollection

DefKeys(d) == {d[i].key : i \in 1..Len(d)}

\* the case-names of a definition: its keys whose coercion to a number is NaN
CaseNames(d) == {k \in DefKeys(d) : IsNaNNumber(k)}

EntryPosition(d, k) == CHOOSE i \in 1..Len(d) : d[i].key = k

\* position of a case-name among the case-names, in the definition's key order
Rank(d, k) ==
    Cardinality({k2 \in CaseNames(d) : EntryPosition(d, k2) <= EntryPosition(d, k)})

BackingValues(d) == {GetEntry(d, k) : k \in CaseNames(d)}

\* the last case-name, in key order, whose backing value is v
LastNameOf(d, v) ==
    CHOOSE k \in CaseNames(d) :
        /\ GetEntry(d, k) = v
        /\ \A k2 \in CaseNames(d) : GetEntry(d, k2) = v => Rank(d, k2) <= Rank(d, k)

(***************************************************************************)
(* C1.  Reverse lookup round-trips: for every case-name k of a built       *)
(* collection, from(collection[k].value) is collection[k], and for every   *)
(* case instance c of collection.cases, from(c) is c.                      *)
(***************************************************************************)
ReverseLookupRoundTrips ==
    (Built /\ last.op = "from") =>
        /\ \A k \in CaseNames(def) :
              last.arg = GetProperty(coll, k).value =>
                  ~last.thrown /\ last.value = GetProperty(coll, k)
        /\ \A i \in 1..Len(coll.arr) :
              last.arg = coll.arr[i] =>
                  ~last.thrown /\ last.value = coll.arr[i]

(***************************************************************************)
(* C2.  Identity of access paths: in a built collection, for every         *)
(* case-name k at position i of the filtered key order, collection[k] and  *)
(* collection.cases[i] are the same object, with name k and value          *)
(* definition[k], and construction made exactly one instance per           *)
(* case-name.                                                              *)
(***************************************************************************)
AccessPathsAgree ==
    Built =>
        /\ CasesIsArray(coll)
        /\ Len(coll.arr) = Cardinality(CaseNames(def))
        /\ \A k \in CaseNames(def) :
              /\ IsCaseObject(GetProperty(coll, k))
              /\ GetProperty(coll, k) = coll.arr[Rank(def, k)]
              /\ GetProperty(coll, k).name = k
              /\ GetProperty(coll, k).value = GetEntry(def, k)
              /\ Cardinality({i \in 1..Len(made) : made[i].name = k}) = 1
        /\ Len(made) = Cardinality(CaseNames(def))
        /\ \A i, j \in 1..Len(made) : made[i].id = made[j].id => i = j

(***************************************************************************)
(* C3.  from never throws: a candidate that is neither a string nor a      *)
(* number nor an instance of the case class gets undefined, and so does a  *)
(* string or a number that is no backing value, for every definition.      *)
(***************************************************************************)
FromNeverThrows ==
    (Built /\ last.op = "from") =>
        /\ ~last.thrown
        /\ (~InstanceOf(last.arg, cls) /\ TypeOf(last.arg) \notin {"string", "number"})
              => last.value = Undefined
        /\ (TypeOf(last.arg) \in {"string", "number"} /\ last.arg \notin BackingValues(def))
              => last.value = Undefined

(***************************************************************************)
(* C4.  Last write wins: when case-names k1 (earlier) and k2 (the later    *)
(* one) have the same backing value v, from(v) returns collection[k2];     *)
(* collection[k1] and collection[k2] are distinct instances, both in       *)
(* cases, and cases.length is the number of case-names.                    *)
(***************************************************************************)
LastWriteWins ==
    Built =>
        \A k1, k2 \in CaseNames(def) :
            (/\ Rank(def, k1) < Rank(def, k2)
             /\ GetEntry(def, k1) = GetEntry(def, k2)
             /\ k2 = LastNameOf(def, GetEntry(def, k2)))
            => /\ ~CallFrom(coll, cls, GetEntry(def, k2)).thrown
               /\ CallFrom(coll, cls, GetEntry(def, k2)).value = GetProperty(coll, k2)
               /\ GetProperty(coll, k1) # GetProperty(coll, k2)
               /\ \E i, j \in 1..Len(coll.arr) :
                     /\ i # j
                     /\ coll.arr[i] = GetProperty(coll, k1)
                     /\ coll.arr[j] = GetProperty(coll, k2)
               /\ Len(coll.arr) = Cardinality(CaseNames(def))

(***************************************************************************)
(* C5.  Filtering and order: the names of collection.cases are exactly the *)
(* definition's keys whose coercion to a number is NaN, in the             *)
(* definition's key order; a key that coerces to a number gets no case, no *)
(* accessor and no entry of the reverse index; cases.length is the number  *)
(* of filtered keys.                                                       *)
(***************************************************************************)
CasesFollowFilteredKeys ==
    Built =>
        /\ CasesIsArray(coll)
        /\ Len(coll.arr) = Cardinality(CaseNames(def))
        /\ \A k \in CaseNames(def) : coll.arr[Rank(def, k)].name = k
        /\ \A i, j \in 1..Len(coll.arr) :
              i < j => EntryPosition(def, coll.arr[i].name)
                         < EntryPosition(def, coll.arr[j].name)
        /\ \A k \in DefKeys(def) \ CaseNames(def) :
              /\ ~HasOwn(coll, k)
              /\ \A i \in 1..Len(made) : made[i].name # k
              /\ \A i \in 1..Len(coll.idx) : coll.idx[i].value.name # k

(***************************************************************************)
(* C6.  Exact match only: for a string or number candidate, from returns a *)
(* case only if the case's value is that very primitive, of the same kind; *)
(* "1" never matches 1, "A" never matches "a"; a candidate that is no      *)
(* backing value gets undefined.                                           *)
(***************************************************************************)
ExactMatchOnly ==
    (Built /\ last.op = "from" /\ TypeOf(last.arg) \in {"string", "number"}) =>
        /\ ~last.thrown
        /\ last.value # Undefined =>
              /\ IsCaseObject(last.value)
              /\ last.value.value = last.arg
              /\ last.value \in OwnCases(coll)
        /\ last.arg \notin BackingValues(def) => last.value = Undefined

(***************************************************************************)
(* C7.  Trait override order: a method defined by several of EnumCase and  *)
(* the modules of createEnumCase(M1, ..., Mn) is the one of the module     *)
(* that comes last in the supplied order; a module's toString overrides    *)
(* the default, and without one toString() is String(value).               *)
(***************************************************************************)
LastDefiner(traits, method) ==
    LET definers == {i \in 1..Len(traits) : method \in TraitMethods(traits[i])}
    IN  IF definers = {} THEN "none"
        ELSE traits[CHOOSE i \in definers : \A j \in definers : j <= i]

TraitOverrideOrder ==
    (Built /\ last.op = "invoke") =>
        LET method == last.key[1]
            this == last.arg
            winner == LastDefiner(mods, method)
        IN  /\ (method = "f" /\ winner = "M1") =>
                  ~last.thrown /\ last.value = Str(<<"M", "1">>)
            /\ (method = "f" /\ winner = "M2") =>
                  ~last.thrown /\ last.value = Str(<<"M", "2">>)
            /\ (method = "toString" /\ winner = "Stringable") =>
                  ~last.thrown /\ last.value = Str(this.name)
            /\ (method = "toString" /\ winner = "none") =>
                  /\ ~last.thrown
                  /\ this.value.t = "string" => last.value = Str(this.value.s)
                  /\ this.value = Num(12) => last.value = Str(<<"1", "2">>)
                  /\ this.value = Num(1) => last.value = Str(<<"1">>)
                  /\ this.value = Num(2) => last.value = Str(<<"2">>)

TraitOverrideOrderWitness ==
    /\ Built
    /\ last.op = "invoke"
    /\ last.key = <<"f">>
    /\ mods = <<"M1", "M2">>
    /\ last.value = Str(<<"M", "2">>)

(***************************************************************************)
(* C8.  Values projection: values() has the length of cases and its i-th   *)
(* element is cases[i].value, in cases order, a shared backing value       *)
(* appearing once per case; an empty definition gives empty cases and      *)
(* values().                                                               *)
(***************************************************************************)
ValuesProjectCases ==
    (Built /\ last.op = "values") =>
        /\ ~last.thrown
        /\ CasesIsArray(coll)
        /\ Len(last.list) = Len(coll.arr)
        /\ \A i \in 1..Len(coll.arr) : last.list[i] = coll.arr[i].value
        /\ \A k \in CaseNames(def) : last.list[Rank(def, k)] = GetEntry(def, k)
        /\ Len(def) = 0 => (Len(coll.arr) = 0 /\ Len(last.list) = 0)

(***************************************************************************)
(* C9.  Structural immutability: no operation of the caller on a returned  *)
(* collection (assigning to or redefining a named accessor, push, pop or   *)
(* truncation of collection.cases, from, values) changes the length or     *)
(* order of cases, the binding of an accessor or the result of from.       *)
(***************************************************************************)
CallerOperations ==
    {"push", "pop", "truncate", "assign", "redefine", "from", "values"}

Structure(obj) ==
    [cases |-> obj.arr,
     bindings |-> [k \in AccessorKeys(obj) |-> GetProperty(obj, k)],
     lookups |-> [v \in PrimitiveCandidates \cup ForeignCases |->
                     CallFrom(obj, cls, v)]]

StructureIsImmutable ==
    [][(Built /\ last'.op \in CallerOperations) =>
          LET before == Structure(coll)
              after == Structure(coll')
          IN  /\ Len(after.cases) = Len(before.cases)
              /\ after.cases = before.cases
              /\ after.bindings = before.bindings
              /\ after.lookups = before.lookups]_vars

(***************************************************************************)
(* C10.  Construction is all or nothing: when the case class's constructor *)
(* throws for a key, createBackedEnum throws and no collection is          *)
(* returned; when no constructor throws, the returned collection is fully  *)
(* populated.                                                              *)
(***************************************************************************)
FullyPopulated(obj, d) ==
    /\ CasesIsArray(obj)
    /\ Len(obj.arr) = Cardinality(CaseNames(d))
    /\ \A k \in CaseNames(d) : IsCaseObject(GetProperty(obj, k))
    /\ HasOwn(obj, MapKey)
    /\ GetOwn(obj, MapKey).ref = "idx"
    /\ \A v \in BackingValues(d) : MapHas(obj.idx, v)

ConstructionIsAllOrNothing ==
    (last.op = "createBackedEnum") =>
        IF \E k \in CaseNames(def) : k \in cls.throwsOn
        THEN last.thrown /\ last.err = "CaseClassError" /\ ~Built
        ELSE ~last.thrown /\ Built /\ FullyPopulated(coll, def)

(***************************************************************************)
(* C11.  The built artifact agrees with the source: for every definition,  *)
(* case class and candidate, from of the collection dist/index.js builds   *)
(* has the outcome of from of the collection src/index.ts builds (both     *)
(* throw the same error or both return the same value), and so from(c) is  *)
(* c for a case c that holds the reverse-index entry of its value.         *)
(***************************************************************************)
DistAgreesWithSource ==
    (Built /\ last.op = "distFrom") =>
        /\ last.thrown = CallFrom(coll, cls, last.arg).thrown
        /\ last.err = CallFrom(coll, cls, last.arg).err
        /\ last.value = CallFrom(coll, cls, last.arg).value

====
